---------------------------- MODULE Spec2Model ----------------------------
(***************************************************************************)
(* A model of love::graphics::opengl::Image (src/modules/graphics/opengl/  *)
(* Image.cpp): one Image object, the process-wide statics of the class,    *)
(* and the part of the OpenGL context the Image talks to (texture names,   *)
(* the texture binding, the mipmap levels each texture object holds).      *)
(*                                                                         *)
(* Every C++ method is an operator from a record of the mutable state to   *)
(* the record after the call; the field threw says that the call left by   *)
(* a love::Exception, with the assignments made before the throw kept.     *)
(* Floats: texture coordinates are exact fractions <<num, den>>;           *)
(* sharpness values are integers in units of 0.01f (the epsilon of         *)
(* setMipmapSharpness).                                                    *)
(*                                                                         *)
(* And a model of love::graphics::Mesh (src/modules/graphics/Mesh.h): one  *)
(* Mesh object, its vertex bytes, attached attributes and vertex map. The  *)
(* header declares the methods only; their effects follow the written      *)
(* contract of the class.                                                  *)
(***************************************************************************)
EXTENDS Integers, FiniteSets, Sequences, TLC

(* ------------------------------ bounds -------------------------------- *)

\* Largest width / height of a source image.
MaxDim == 3
\* Number of texture names the GL context can hand out.
MaxHandles == 2
\* Largest number of mipmap levels a CompressedData carries.
MaxMips == 2
\* GL_MAX_TEXTURE_LOD_BIAS of the driver, in units of 0.01f.
DriverMaxBias == 2
\* Largest anisotropy the driver grants.
MaxAnisotropy == 2

\* The 0.01f of setMipmapSharpness, in units of 0.01f.
Epsilon == 1

Min(a, b) == IF b < a THEN b ELSE a
Max(a, b) == IF a < b THEN b ELSE a

(* --------------------------- input domains ---------------------------- *)

FilterModes == {"none", "linear", "nearest"}

Versions == {11, 12, 13, 14, 20, 30, 42}

\* The GLEE_VERSION_x_y flags a context of version v reports.
VersionFlags(v) ==
    { f[2] : f \in { g \in { <<12, "VERSION_1_2">>, <<13, "VERSION_1_3">>,
                              <<14, "VERSION_1_4">>, <<20, "VERSION_2_0">>,
                              <<30, "VERSION_3_0">>, <<42, "VERSION_4_2">> }
                       : g[1] <= v } }

\* The extensions that give an OpenGL 1.1 context one capability.
ExtensionsFor(c) ==
    CASE c = "npot" -> {"ARB_texture_non_power_of_two"}
      [] c = "mipmap" -> {"SGIS_generate_mipmap"}
      [] c = "sharpness" -> {"EXT_texture_lod_bias"}
      [] c = "compression" -> {"ARB_texture_compression", "EXT_texture_compression_s3tc"}
      [] c = "maxlevel" -> {"SGIS_texture_lod"}

\* Capability sets: each plain OpenGL version, and OpenGL 1.1 with every
\* combination of the capabilities cs, each through its extensions.
ContextsOf(cs) ==
    { VersionFlags(v) : v \in Versions }
        \cup { UNION { ExtensionsFor(c) : c \in sub } : sub \in SUBSET cs }

Sizes == (1 .. MaxDim) \X (1 .. MaxDim)

\* love::image::ImageData: raw pixels, w x h.
ImageDatas == { [w |-> sz[1], h |-> sz[2]] : sz \in Sizes }

\* The compressed sources are square, or one texel thin.
CompressedSizes == { sz \in Sizes : sz[1] = sz[2] \/ 1 \in {sz[1], sz[2]} }

\* love::image::CompressedData: a type and numMipmaps levels, level 0 w x h.
CompressedDatas ==
    { [type |-> "DXT5", w |-> sz[1], h |-> sz[2], numMipmaps |-> n]
        : sz \in CompressedSizes, n \in 1 .. MaxMips }
    \cup { [type |-> "BC7", w |-> MaxDim, h |-> 1, numMipmaps |-> MaxMips] }

LinearFilter(mm) == [min |-> "linear", mag |-> "linear", mipmap |-> mm, anisotropy |-> 1]
NearestFilter(mm) ==
    [min |-> "nearest", mag |-> "nearest", mipmap |-> mm, anisotropy |-> MaxAnisotropy + 1]

FilterInputs == { LinearFilter("none"), NearestFilter("linear"), NearestFilter("nearest") }

WrapInputs == { [s |-> "clamp", t |-> "clamp"], [s |-> "repeat", t |-> "clamp"] }

SharpnessInputs == -(DriverMaxBias + 1) .. (DriverMaxBias + 1)

DefaultSharpnessInputs == {0, DriverMaxBias + 1}

RectInputs == { <<0, 0, 1, 1>>, <<1, 1, 1, 1>>, <<1, 0, 2, 1>> }

Handles == 1 .. MaxHandles

\* The null ImageData* / CompressedData* of an Image built from the other kind.
NoData == [w |-> 0, h |-> 0]
NoCData == [type |-> "none", w |-> 0, h |-> 0, numMipmaps |-> 0]

(* ------------------------------ state --------------------------------- *)

VARIABLES
    glee,                   \* the GLEE_* flags that are true in this context
    maxMipmapSharpness,     \* static float Image::maxMipmapSharpness
    defaultMipmapFilter,    \* static Image::defaultMipmapFilter
    defaultMipmapSharpness, \* static Image::defaultMipmapSharpness
    phase,                  \* "none" | "alive" | "dead": the Image object's life
    data, cdata,            \* the retained source; NoData stands for the null pointer
    isCompressed,
    width, height,
    texture, filter, wrap, mipmapSharpness, mipmapsCreated, vertices,
    live,                   \* GL: texture names generated and not deleted
    bound,                  \* GL: the texture bound to GL_TEXTURE_2D
    levels,                 \* GL: mipmap levels stored in each texture object
    last,                   \* the last call: [op, ok, arg, ret]
    loaded,                 \* the last load() returned true and no unload() since
    observed                \* <<visible state>> seen right before the last unload()

\* love::graphics::Mesh (src/modules/graphics/Mesh.h): one Mesh object.
VARIABLES
    vertexFormat,           \* the declared attributes of the own vertex buffer
    attachedAttributes,     \* std::vector<BufferAttribute>, in attach order
    vertexBuffer,           \* the bytes of the own vertex buffer
    vertexCount,
    vertexStride,
    indexBuffer,            \* the bytes of the index buffer
    useIndexBuffer,
    indexDataType,
    attachedBefore          \* <<attachedAttributes>> right before the last attachAttribute()

statics == <<maxMipmapSharpness, defaultMipmapFilter, defaultMipmapSharpness>>
source  == <<data, cdata, isCompressed, width, height>>
object  == <<texture, filter, wrap, mipmapSharpness, mipmapsCreated, vertices>>
context == <<live, bound, levels>>
mesh    == <<vertexFormat, attachedAttributes, vertexBuffer, vertexCount, vertexStride,
             indexBuffer, useIndexBuffer, indexDataType, attachedBefore>>
vars    == <<glee, statics, phase, source, object, context, last, loaded, observed, mesh>>


(* ------------------- collaborators outside Image.cpp ------------------ *)

\* next_p2(x): the smallest power of two >= x.
RECURSIVE p2from(_, _)
p2from(p, x) == IF p >= x THEN p ELSE p2from(2 * p, x)
next_p2(x) == p2from(1, x)

\* CompressedData::getWidth(i) / getHeight(i): each level halves the one above.
RECURSIVE halve(_, _)
halve(n, i) == IF i = 0 THEN n ELSE halve(Max(1, n \div 2), i - 1)
getWidth(cd, i) == halve(cd.w, i)
getHeight(cd, i) == halve(cd.h, i)

\* The levels of a complete mipmap chain of a w x h texture, as glGenerateMipmap
\* and GL_GENERATE_MIPMAP produce them.
RECURSIVE chain(_, _)
chain(n, i) == IF n <= 1 THEN {i} ELSE {i} \cup chain(n \div 2, i + 1)
FullChain(w, h) == chain(Max(w, h), 0)

\* Texture::getDefaultFilter().
getDefaultFilter == [min |-> "linear", mag |-> "linear", mipmap |-> "none", anisotropy |-> 1]

\* Image::Wrap(): the default-constructed wrap member.
DefaultWrap == [s |-> "clamp", t |-> "clamp"]

\* setTextureFilter(f): applies f to the bound texture and returns the
\* anisotropy the driver granted, the request clamped into [1, max].
setTextureFilter(f) == Min(Max(f.anisotropy, 1), MaxAnisotropy)

\* bindTexture(t): makes t the texture of GL_TEXTURE_2D.
bindTexture(s, t) == [s EXCEPT !.bound = t]

\* glGenTextures(1, &texture): a fresh name h; the object is empty.
glGenTextures(s, h) ==
    [s EXCEPT !.texture = h, !.live = @ \cup {h}, !.levels[h] = {}]

\* deleteTexture(t): glDeleteTextures; a bound texture falls back to 0.
deleteTexture(s, t) ==
    [s EXCEPT !.live = @ \ {t},
              !.bound = IF @ = t THEN 0 ELSE @,
              !.levels[t] = {}]

\* glTexImage2D / glTexSubImage2D / glCompressedTexImage2DARB of the levels ls
\* into the texture bound to GL_TEXTURE_2D.
glUpload(s, ls) ==
    [s EXCEPT !.levels[s.bound] = @ \cup ls, !.uploads = @ + 1]

\* throw love::Exception(...): the state reached so far, marked as thrown.
Throw(s) == [s EXCEPT !.threw = TRUE]

(* ------------------------- capability queries -------------------------- *)

GLEE(flag) == flag \in glee

hasNpot == GLEE("VERSION_2_0") \/ GLEE("ARB_texture_non_power_of_two")

hasMipmapSupport == GLEE("VERSION_1_4") \/ GLEE("SGIS_generate_mipmap")

hasMipmapSharpnessSupport == GLEE("VERSION_1_4") \/ GLEE("EXT_texture_lod_bias")

hasCompressedTextureSupport == GLEE("VERSION_1_3") \/ GLEE("ARB_texture_compression")

hasCompressedTextureSupportFor(type) ==
    IF ~hasCompressedTextureSupport THEN FALSE
    ELSE CASE type \in {"DXT1", "DXT3", "DXT5"} -> GLEE("EXT_texture_compression_s3tc")
           [] type \in {"BC5s", "BC5u"} ->
                GLEE("VERSION_3_0") \/ GLEE("ARB_texture_compression_rgtc")
           [] type \in {"BC7", "BC7srgb"} ->
                GLEE("VERSION_4_2") \/ GLEE("ARB_texture_compression_bptc")
           [] OTHER -> FALSE

\* GLEE_VERSION_1_2 || GLEE_SGIS_texture_lod: GL_TEXTURE_MAX_LEVEL can be set.
hasMaxLevel == GLEE("VERSION_1_2") \/ GLEE("SGIS_texture_lod")

\* GLEE_VERSION_3_0 || GLEE_ARB_framebuffer_object: glGenerateMipmap exists.
hasGenerateMipmap == GLEE("VERSION_3_0") \/ GLEE("ARB_framebuffer_object")

(* ---------------------------- exact fractions -------------------------- *)

Frac(n, d) == <<n, d>>
FracEq(a, b) == a[1] * b[2] = b[1] * a[2]
FracAdd(a, b) == <<a[1] * b[2] + b[1] * a[2], a[2] * b[2]>>
Zero == Frac(0, 1)
One == Frac(1, 1)

(* ----------------------------- Image methods --------------------------- *)

\* The mutable state a method works on, with nothing thrown and no upload yet.
St ==
    [ texture |-> texture, filter |-> filter, wrap |-> wrap,
      mipmapSharpness |-> mipmapSharpness, mipmapsCreated |-> mipmapsCreated,
      vertices |-> vertices, maxMipmapSharpness |-> maxMipmapSharpness,
      live |-> live, bound |-> bound, levels |-> levels,
      threw |-> FALSE, uploads |-> 0 ]

\* void Image::bind() const
bind(s) == IF s.texture = 0 THEN s ELSE bindTexture(s, s.texture)

\* createMipmaps that uploads the supplied levels without the maximum-level check.
createMipmaps_NoMaxLevelCheck(s) ==
    IF isCompressed /\ cdata # NoCData /\ hasCompressedTextureSupportFor(cdata.type)
    THEN LET RECURSIVE up(_, _)
             up(r, i) == IF i < cdata.numMipmaps THEN up(glUpload(r, {i}), i + 1) ELSE r
         IN  [up(s, 1) EXCEPT !.mipmapsCreated = TRUE]
    ELSE IF data # NoData
    THEN [glUpload(s, FullChain(width, height)) EXCEPT !.mipmapsCreated = TRUE]
    ELSE s

\* The upload branches of checkMipmapsCreated, after bind().
createMipmaps(s) ==
    IF isCompressed /\ cdata # NoCData /\ hasCompressedTextureSupportFor(cdata.type)
    THEN LET numMipmaps == cdata.numMipmaps IN
         IF ~hasMaxLevel /\ (getWidth(cdata, numMipmaps - 1) > 1
                                \/ getHeight(cdata, numMipmaps - 1) > 1)
         THEN Throw(s)
         ELSE LET RECURSIVE up(_, _)
                  up(r, i) == IF i < numMipmaps THEN up(glUpload(r, {i}), i + 1) ELSE r
              IN  [up(s, 1) EXCEPT !.mipmapsCreated = TRUE]
    ELSE IF data # NoData /\ hasNpot /\ hasGenerateMipmap
    THEN [glUpload(s, FullChain(width, height)) EXCEPT !.mipmapsCreated = TRUE]
    ELSE IF data # NoData
    THEN [glUpload(s, FullChain(width, height)) EXCEPT !.mipmapsCreated = TRUE]
    ELSE s

\* Mutant of checkMipmapsCreated: the power-of-two check is left out.
checkMipmapsCreated_NoPow2Check(s) ==
    IF s.mipmapsCreated \/ (s.filter.mipmap # "nearest" /\ s.filter.mipmap # "linear")
    THEN s
    ELSE IF ~(isCompressed /\ cdata # NoCData) /\ ~hasMipmapSupport
    THEN Throw(s)
    ELSE createMipmaps(bind(s))

\* Mutant of checkMipmapsCreated: compressed sources need mipmap hardware too.
checkMipmapsCreated_NoCompressedExemption(s) ==
    IF s.mipmapsCreated \/ (s.filter.mipmap # "nearest" /\ s.filter.mipmap # "linear")
    THEN s
    ELSE IF ~hasMipmapSupport
    THEN Throw(s)
    ELSE IF ~isCompressed /\ (width # next_p2(width) \/ height # next_p2(height))
    THEN Throw(s)
    ELSE createMipmaps(bind(s))

\* checkMipmapsCreated that does not look at the mipmapsCreated flag.
checkMipmapsCreated_IgnoresCreated(s) ==
    IF s.filter.mipmap # "nearest" /\ s.filter.mipmap # "linear" THEN s
    ELSE createMipmaps(bind(s))

\* void Image::checkMipmapsCreated()
checkMipmapsCreated(s) ==
    IF s.mipmapsCreated \/ (s.filter.mipmap # "nearest" /\ s.filter.mipmap # "linear")
    THEN s
    ELSE IF ~(isCompressed /\ cdata # NoCData) /\ ~hasMipmapSupport
    THEN Throw(s)
    ELSE IF ~isCompressed /\ (width # next_p2(width) \/ height # next_p2(height))
    THEN Throw(s)
    ELSE createMipmaps(bind(s))

\* setFilter that keeps the requested anisotropy instead of the granted one.
setFilter_KeepsRequested(s, f) ==
    checkMipmapsCreated(bind([s EXCEPT !.filter = f]))

\* void Image::setFilter(const Image::Filter &f)
setFilter(s, f) ==
    LET s1 == [s EXCEPT !.filter = f]
        s2 == bind(s1)
        s3 == [s2 EXCEPT !.filter.anisotropy = setTextureFilter(f)]
    IN  checkMipmapsCreated(s3)

\* void Image::setWrap(const Image::Wrap &w)
setWrap(s, w) == bind([s EXCEPT !.wrap = w])

\* void Image::setMipmapSharpness(float sharpness)
setMipmapSharpness(s, sharpness) ==
    IF hasMipmapSharpnessSupport
    THEN bind([s EXCEPT !.mipmapSharpness =
                  Min(Max(sharpness, -s.maxMipmapSharpness + Epsilon),
                      s.maxMipmapSharpness - Epsilon)])
    ELSE [s EXCEPT !.mipmapSharpness = 0]

\* Mutant of finishLoad: the default sharpness is applied, not the stored one.
finishLoad_DefaultSharpness(s, glerr) ==
    IF glerr THEN Throw(s)
    ELSE LET s1 == checkMipmapsCreated([s EXCEPT !.mipmapsCreated = FALSE])
         IN  IF s1.threw THEN s1 ELSE setMipmapSharpness(s1, defaultMipmapSharpness)

\* The tail shared by loadVolatilePOT and loadVolatileNPOT: the glGetError
\* check, the mipmaps, the sharpness. glerr: the upload left a GL error.
finishLoad(s, glerr) ==
    IF glerr THEN Throw(s)
    ELSE LET s1 == checkMipmapsCreated([s EXCEPT !.mipmapsCreated = FALSE])
         IN  IF s1.threw THEN s1 ELSE setMipmapSharpness(s1, s1.mipmapSharpness)

\* Mutant of loadVolatilePOT: the scale is the padded size over the size.
loadVolatilePOT_InverseScale(s, h, glerr) ==
    LET s1 == bindTexture(glGenTextures(s, h), h)
        s2 == [s1 EXCEPT !.filter.anisotropy = setTextureFilter(s1.filter)]
        p2width == next_p2(width)
        p2height == next_p2(height)
        sc == Frac(p2width, width)
        tc == Frac(p2height, height)
        s3 == [s2 EXCEPT !.vertices[1].t = tc, !.vertices[2].t = tc,
                         !.vertices[2].s = sc, !.vertices[3].s = sc]
    IN  IF isCompressed /\ cdata # NoCData
        THEN IF ~FracEq(sc, One) \/ ~FracEq(tc, One)
             THEN Throw(s3)
             ELSE finishLoad(glUpload(s3, {0}), glerr)
        ELSE IF data # NoData
        THEN finishLoad(glUpload(glUpload(s3, {0}), {0}), glerr)
        ELSE finishLoad(s3, glerr)

\* bool Image::loadVolatilePOT()
loadVolatilePOT(s, h, glerr) ==
    LET s1 == bindTexture(glGenTextures(s, h), h)
        s2 == [s1 EXCEPT !.filter.anisotropy = setTextureFilter(s1.filter)]
        p2width == next_p2(width)
        p2height == next_p2(height)
        sc == Frac(width, p2width)
        tc == Frac(height, p2height)
        s3 == [s2 EXCEPT !.vertices[1].t = tc, !.vertices[2].t = tc,
                         !.vertices[2].s = sc, !.vertices[3].s = sc]
    IN  IF isCompressed /\ cdata # NoCData
        THEN IF ~FracEq(sc, One) \/ ~FracEq(tc, One)
             THEN Throw(s3)
             ELSE finishLoad(glUpload(s3, {0}), glerr)
        ELSE IF data # NoData
        THEN finishLoad(glUpload(glUpload(s3, {0}), {0}), glerr)
        ELSE finishLoad(s3, glerr)

\* bool Image::loadVolatileNPOT()
loadVolatileNPOT(s, h, glerr) ==
    LET s1 == bindTexture(glGenTextures(s, h), h)
        s2 == [s1 EXCEPT !.filter.anisotropy = setTextureFilter(s1.filter)]
    IN  IF isCompressed /\ cdata # NoCData
        THEN finishLoad(glUpload(s2, {0}), glerr)
        ELSE IF data # NoData
        THEN finishLoad(glUpload(s2, {0}), glerr)
        ELSE finishLoad(s2, glerr)

\* Mutant of loadVolatile: the compression format is not checked.
loadVolatile_NoFormatCheck(s, h, glerr) ==
    LET s1 == IF hasMipmapSharpnessSupport /\ s.maxMipmapSharpness = 0
              THEN [s EXCEPT !.maxMipmapSharpness = DriverMaxBias]
              ELSE s
    IN  IF hasNpot THEN loadVolatileNPOT(s1, h, glerr)
                   ELSE loadVolatilePOT(s1, h, glerr)

\* bool Image::loadVolatile()
loadVolatile(s, h, glerr) ==
    IF isCompressed /\ cdata # NoCData /\ ~hasCompressedTextureSupportFor(cdata.type)
    THEN Throw(s)
    ELSE LET s1 == IF hasMipmapSharpnessSupport /\ s.maxMipmapSharpness = 0
                   THEN [s EXCEPT !.maxMipmapSharpness = DriverMaxBias]
                   ELSE s
         IN  IF hasNpot THEN loadVolatileNPOT(s1, h, glerr)
                        ELSE loadVolatilePOT(s1, h, glerr)

\* Mutant of unloadVolatile: the texture is deleted, the handle is kept.
unloadVolatile_KeepsHandle(s) ==
    IF s.texture # 0 THEN deleteTexture(s, s.texture) ELSE s

\* void Image::unloadVolatile()
unloadVolatile(s) ==
    IF s.texture # 0 THEN [deleteTexture(s, s.texture) EXCEPT !.texture = 0] ELSE s

\* void Image::preload(): the corner vertices of a w x h image.
preloadVertices(w, h) ==
    [i \in 0 .. 3 |->
        [ x |-> IF i \in {2, 3} THEN w ELSE 0,
          y |-> IF i \in {1, 2} THEN h ELSE 0,
          s |-> IF i \in {2, 3} THEN One ELSE Zero,
          t |-> IF i \in {1, 2} THEN One ELSE Zero ]]

\* void Image::preload(): the filter of a new Image.
preloadFilter == [getDefaultFilter EXCEPT !.mipmap = defaultMipmapFilter]

\* void Image::getRectangleVertices(int x, int y, int w, int h, vertex *vertices) const
getRectangleVertices(x, y, w, h) ==
    LET xu == IF x + w > width THEN width - w ELSE x
        yu == IF y + h > height THEN height - h ELSE y
        xl == IF xu < 0 THEN 0 ELSE xu
        yl == IF yu < 0 THEN 0 ELSE yu
        tx == Frac(xl, width)
        ty == Frac(yl, height)
        tw == Frac(w, width)
        th == Frac(h, height)
    IN  [i \in 0 .. 3 |->
            [ x |-> IF i \in {2, 3} THEN w ELSE 0,
              y |-> IF i \in {1, 2} THEN h ELSE 0,
              s |-> IF i \in {2, 3} THEN FracAdd(tx, tw) ELSE tx,
              t |-> IF i \in {1, 2} THEN FracAdd(ty, th) ELSE ty ]]

(* -------------------------------- Mesh --------------------------------- *)

\* Largest number of vertices of a Mesh.
MaxVertices == 2

\* Largest number of attributes attached to a Mesh from other buffers.
MaxAttached == 2

\* AttributeStep
AttributeSteps == {"pervertex", "perinstance"}

\* The values a byte takes in the model.
Bytes == {0, 1}

\* Byte sequences of every length from lo to hi.
ByteSeqs(lo, hi) == UNION { [1 .. n -> Bytes] : n \in lo .. hi }

\* A vertex format: a two-byte position and a one-byte color.
PositionColorFormat ==
    << [name |-> "VertexPosition", size |-> 2], [name |-> "VertexColor", size |-> 1] >>

\* Buffer::getMemberOffset: the bytes of the members declared before member a (0-based).
RECURSIVE getMemberOffset(_, _)
getMemberOffset(fmt, a) == IF a = 0 THEN 0 ELSE getMemberOffset(fmt, a - 1) + fmt[a].size

\* Buffer::getArrayStride: the bytes of one vertex.
getArrayStride(fmt) == getMemberOffset(fmt, Len(fmt))

\* The vertex buffers of other objects that attributes are attached from, and
\* the names their data layouts declare.
OtherBuffers == {"instances", "colors"}
BufferMembers(b) ==
    CASE b = "instances" -> <<"InstanceOffset", "VertexColor">>
      [] b = "colors" -> <<"VertexColor">>
      [] b = "own" -> [a \in 1 .. Len(vertexFormat) |-> vertexFormat[a].name]

\* Buffer::getDataMemberIndex(name): 0-based, -1 when the layout has no such member.
getDataMemberIndex(b, name) ==
    LET ms == BufferMembers(b) IN
    IF \E a \in 1 .. Len(ms) : ms[a] = name
    THEN (CHOOSE a \in 1 .. Len(ms) : ms[a] = name) - 1
    ELSE -1

\* IndexDataType: the bytes of one index.
getIndexDataSize(type) == IF type = "uint16" THEN 2 ELSE 4

\* One index as bytes of the given type, little-endian, and back.
RECURSIVE encodeIndex(_, _)
encodeIndex(v, n) == IF n = 0 THEN <<>> ELSE <<v % 256>> \o encodeIndex(v \div 256, n - 1)
RECURSIVE decodeIndex(_)
decodeIndex(bs) == IF bs = <<>> THEN 0 ELSE bs[1] + 256 * decodeIndex(Tail(bs))

\* A vertex map as the bytes of an index buffer of the given type, and back.
RECURSIVE encodeIndices(_, _)
encodeIndices(map, type) ==
    IF map = <<>> THEN <<>>
    ELSE encodeIndex(map[1], getIndexDataSize(type)) \o encodeIndices(Tail(map), type)
decodeIndices(bs, type) ==
    LET n == getIndexDataSize(type) IN
    [k \in 1 .. (Len(bs) \div n) |-> decodeIndex(SubSeq(bs, (k - 1) * n + 1, k * n))]

\* Index buffers of other objects: a type and the bytes.
OtherIndexBuffers == { [type |-> "uint16", data |-> encodeIndices(<<1, 0>>, "uint16")] }

\* The BufferAttribute entries of the own vertex buffer, as the constructor attaches them.
OwnAttributes(fmt) ==
    [a \in 1 .. Len(fmt) |->
        [name |-> fmt[a].name, buffer |-> "own", indexInBuffer |-> a - 1,
         step |-> "pervertex", enabled |-> TRUE]]

\* Mesh::Mesh(gfx, vertexformat, vertexcount, drawmode, usage): zeroed storage,
\* no vertex map.
NewMesh(fmt, n) ==
    /\ vertexFormat = fmt
    /\ attachedAttributes = OwnAttributes(fmt)
    /\ vertexCount = n
    /\ vertexStride = getArrayStride(fmt)
    /\ vertexBuffer = [k \in 0 .. n * getArrayStride(fmt) - 1 |-> 0]
    /\ indexBuffer = <<>>
    /\ useIndexBuffer = FALSE
    /\ indexDataType = "uint32"
    /\ attachedBefore = <<>>

\* No Mesh has been constructed.
NoMesh == NewMesh(<<>>, 0)

\* The mutable state of the Mesh as a record, before a call.
MeshSt ==
    [ attachedAttributes |-> attachedAttributes, vertexBuffer |-> vertexBuffer,
      indexBuffer |-> indexBuffer, useIndexBuffer |-> useIndexBuffer,
      indexDataType |-> indexDataType, threw |-> FALSE, ret |-> <<>> ]

\* The bytes d written into buf from byte offset off on.
Write(buf, off, d) ==
    [k \in DOMAIN buf |-> IF k - off \in 0 .. Len(d) - 1 THEN d[k - off + 1] ELSE buf[k]]

\* The n bytes of buf from byte offset off on.
Read(buf, off, n) == [k \in 1 .. n |-> buf[off + k - 1]]

\* setVertex that writes at the start of the buffer, whatever the index.
setVertex_AtBufferStart(m, vertindex, d) ==
    IF vertindex >= vertexCount \/ Len(d) > vertexStride THEN Throw(m)
    ELSE [m EXCEPT !.vertexBuffer = Write(@, 0, d)]

\* void Mesh::setVertex(size_t vertindex, const void *data, size_t datasize)
setVertex(m, vertindex, d) ==
    IF vertindex >= vertexCount \/ Len(d) > vertexStride THEN Throw(m)
    ELSE [m EXCEPT !.vertexBuffer = Write(@, vertindex * vertexStride, d)]

\* size_t Mesh::getVertex(size_t vertindex, void *data, size_t datasize)
getVertex(m, vertindex, datasize) ==
    IF vertindex >= vertexCount \/ datasize > vertexStride THEN Throw(m)
    ELSE [m EXCEPT !.ret = Read(m.vertexBuffer, vertindex * vertexStride, datasize)]

\* The attribute attribindex of the own buffer is attached and enabled.
isOwnAttributeEnabled(m, attribindex) ==
    \E e \in 1 .. Len(m.attachedAttributes) :
        /\ m.attachedAttributes[e].buffer = "own"
        /\ m.attachedAttributes[e].indexInBuffer = attribindex
        /\ m.attachedAttributes[e].enabled

\* A write or read of datasize bytes of attribute attribindex of vertex vertindex is rejected.
attributeRejected(m, vertindex, attribindex, datasize) ==
    \/ vertindex >= vertexCount
    \/ attribindex \notin 0 .. Len(vertexFormat) - 1
    \/ ~isOwnAttributeEnabled(m, attribindex)
    \/ datasize > vertexFormat[attribindex + 1].size

\* setVertexAttribute that writes at the start of the vertex, whatever the attribute.
setVertexAttribute_AtVertexStart(m, vertindex, attribindex, d) ==
    IF attributeRejected(m, vertindex, attribindex, Len(d)) THEN Throw(m)
    ELSE [m EXCEPT !.vertexBuffer = Write(@, vertindex * vertexStride, d)]

\* void Mesh::setVertexAttribute(size_t vertindex, int attribindex, const void *data, size_t datasize)
setVertexAttribute(m, vertindex, attribindex, d) ==
    IF attributeRejected(m, vertindex, attribindex, Len(d)) THEN Throw(m)
    ELSE [m EXCEPT !.vertexBuffer =
            Write(@, vertindex * vertexStride + getMemberOffset(vertexFormat, attribindex), d)]

\* size_t Mesh::getVertexAttribute(size_t vertindex, int attribindex, void *data, size_t datasize)
getVertexAttribute(m, vertindex, attribindex, datasize) ==
    IF attributeRejected(m, vertindex, attribindex, datasize) THEN Throw(m)
    ELSE [m EXCEPT !.ret =
            Read(m.vertexBuffer,
                 vertindex * vertexStride + getMemberOffset(vertexFormat, attribindex),
                 datasize)]

(* ------------------------------- actions ------------------------------- *)

\* What getFilter(), getWrap(), getMipmapSharpness(), getWidth(), getHeight() return.
Visible ==
    [ filter |-> filter, wrap |-> wrap, mipmapSharpness |-> mipmapSharpness,
      width |-> width, height |-> height ]

\* The variables take the values of the state record r a method returned.
Apply(r) ==
    /\ texture' = r.texture
    /\ filter' = r.filter
    /\ wrap' = r.wrap
    /\ mipmapSharpness' = r.mipmapSharpness
    /\ mipmapsCreated' = r.mipmapsCreated
    /\ vertices' = r.vertices
    /\ maxMipmapSharpness' = r.maxMipmapSharpness
    /\ live' = r.live
    /\ bound' = r.bound
    /\ levels' = r.levels

Called(op, r, arg, ret) ==
    last' = [op |-> op, ok |-> ~r.threw, arg |-> arg, ret |-> ret, uploads |-> r.uploads]

\* Before the Image is constructed, in a context with one of the capability sets cs.
ImageInitIn(cs) ==
    /\ glee \in cs
    /\ maxMipmapSharpness = 0
    /\ defaultMipmapFilter = "none"
    /\ defaultMipmapSharpness = 0
    /\ phase = "none"
    /\ data = NoData
    /\ cdata = NoCData
    /\ isCompressed = FALSE
    /\ width = 0
    /\ height = 0
    /\ texture = 0
    /\ filter = getDefaultFilter
    /\ wrap = DefaultWrap
    /\ mipmapSharpness = 0
    /\ mipmapsCreated = FALSE
    /\ vertices = preloadVertices(0, 0)
    /\ live = {}
    /\ bound = 0
    /\ levels = [h \in 0 .. MaxHandles |-> {}]
    /\ last = [op |-> "none", ok |-> TRUE, arg |-> <<>>, ret |-> <<>>, uploads |-> 0]
    /\ loaded = FALSE
    /\ observed = <<>>

\* Before the Image is constructed, and with no Mesh.
InitIn(cs) == ImageInitIn(cs) /\ NoMesh

\* static void Image::setDefaultMipmapFilter(FilterMode f), before the Image exists
SetDefaultMipmapFilter(f) ==
    /\ phase = "none"
    /\ defaultMipmapFilter' = f
    /\ UNCHANGED <<mesh, glee, maxMipmapSharpness, defaultMipmapSharpness, phase, source,
                   object, context, last, loaded, observed>>

\* static void Image::setDefaultMipmapSharpness(float sharpness), before the Image exists
SetDefaultMipmapSharpness(sh) ==
    /\ phase = "none"
    /\ defaultMipmapSharpness' = sh
    /\ UNCHANGED <<mesh, glee, maxMipmapSharpness, defaultMipmapFilter, phase, source,
                   object, context, last, loaded, observed>>

\* Image::Image(love::image::ImageData *data)
NewImage(d) ==
    /\ phase = "none"
    /\ phase' = "alive"
    /\ data' = d
    /\ cdata' = NoCData
    /\ isCompressed' = FALSE
    /\ width' = d.w
    /\ height' = d.h
    /\ texture' = 0
    /\ mipmapSharpness' = defaultMipmapSharpness
    /\ mipmapsCreated' = FALSE
    /\ vertices' = preloadVertices(d.w, d.h)
    /\ filter' = preloadFilter
    /\ wrap' = DefaultWrap
    /\ last' = [op |-> "new", ok |-> TRUE, arg |-> <<>>, ret |-> <<>>, uploads |-> 0]
    /\ UNCHANGED <<mesh, glee, statics, context, loaded, observed>>

\* Image::Image(love::image::CompressedData *cdata)
NewCompressedImage(cd) ==
    /\ phase = "none"
    /\ phase' = "alive"
    /\ data' = NoData
    /\ cdata' = cd
    /\ isCompressed' = TRUE
    /\ width' = getWidth(cd, 0)
    /\ height' = getHeight(cd, 0)
    /\ texture' = 0
    /\ mipmapSharpness' = defaultMipmapSharpness
    /\ mipmapsCreated' = FALSE
    /\ vertices' = preloadVertices(getWidth(cd, 0), getHeight(cd, 0))
    /\ filter' = preloadFilter
    /\ wrap' = DefaultWrap
    /\ last' = [op |-> "new", ok |-> TRUE, arg |-> <<>>, ret |-> <<>>, uploads |-> 0]
    /\ UNCHANGED <<mesh, glee, statics, context, loaded, observed>>

\* The name glGenTextures hands out: the lowest unused one (names are interchangeable).
FreshName == CHOOSE h \in Handles \ live : \A g \in Handles \ live : h <= g

\* bool Image::load(); h is the name glGenTextures hands out, glerr says
\* whether glGetError reports an error after the upload.
Load(h, glerr) ==
    /\ phase = "alive"
    /\ Handles \ live # {}
    /\ LET r == loadVolatile(St, h, glerr) IN
          /\ Apply(r)
          /\ Called("load", r, <<>>, <<>>)
          /\ loaded' = ~r.threw
    /\ observed' = IF last.op = "unload" THEN observed ELSE <<>>
    /\ UNCHANGED <<mesh, glee, defaultMipmapFilter, defaultMipmapSharpness, phase, source>>

\* void Image::unload()
Unload ==
    /\ phase = "alive"
    /\ LET r == unloadVolatile(St) IN
          /\ Apply(r)
          /\ Called("unload", r, <<>>, <<>>)
    /\ loaded' = FALSE
    /\ observed' = IF loaded THEN <<Visible>> ELSE <<>>
    /\ UNCHANGED <<mesh, glee, defaultMipmapFilter, defaultMipmapSharpness, phase, source>>

SetFilter(f) ==
    /\ phase = "alive"
    /\ LET r == setFilter(St, f) IN
          /\ Apply(r)
          /\ Called("setFilter", r, <<f>>, <<>>)
    /\ observed' = <<>>
    /\ UNCHANGED <<mesh, glee, defaultMipmapFilter, defaultMipmapSharpness, phase, source, loaded>>

SetWrap(w) ==
    /\ phase = "alive"
    /\ LET r == setWrap(St, w) IN
          /\ Apply(r)
          /\ Called("setWrap", r, <<w>>, <<>>)
    /\ observed' = <<>>
    /\ UNCHANGED <<mesh, glee, defaultMipmapFilter, defaultMipmapSharpness, phase, source, loaded>>

SetMipmapSharpness(sh) ==
    /\ phase = "alive"
    /\ LET r == setMipmapSharpness(St, sh) IN
          /\ Apply(r)
          /\ Called("setMipmapSharpness", r, <<sh>>, <<>>)
    /\ observed' = <<>>
    /\ UNCHANGED <<mesh, glee, defaultMipmapFilter, defaultMipmapSharpness, phase, source, loaded>>

GetRectangleVertices(q) ==
    /\ phase = "alive"
    /\ last' = [op |-> "getRectangleVertices", ok |-> TRUE, arg |-> q,
                ret |-> getRectangleVertices(q[1], q[2], q[3], q[4]), uploads |-> 0]
    /\ observed' = <<>>
    /\ UNCHANGED <<mesh, glee, statics, phase, source, object, context, loaded>>

\* Image::~Image()
Delete ==
    /\ phase = "alive"
    /\ phase' = "dead"
    /\ LET r == unloadVolatile(St) IN
          /\ Apply(r)
          /\ Called("delete", r, <<>>, <<>>)
    /\ loaded' = FALSE
    /\ observed' = <<>>
    /\ UNCHANGED <<mesh, glee, defaultMipmapFilter, defaultMipmapSharpness, source>>

\* One call, its arguments drawn from the given sets.
Step(DFs, DSs, Ds, CDs, Fs, Ws, Ss, Qs) ==
    \/ \E f \in DFs : SetDefaultMipmapFilter(f)
    \/ \E sh \in DSs : SetDefaultMipmapSharpness(sh)
    \/ \E d \in Ds : NewImage(d)
    \/ \E cd \in CDs : NewCompressedImage(cd)
    \/ \E glerr \in BOOLEAN : Load(FreshName, glerr)
    \/ Unload
    \/ \E f \in Fs : SetFilter(f)
    \/ \E w \in Ws : SetWrap(w)
    \/ \E sh \in Ss : SetMipmapSharpness(sh)
    \/ \E q \in Qs : GetRectangleVertices(q)
    \/ Delete

\* Loading, mipmaps and texture names: every capability set that decides a
\* branch of load / checkMipmapsCreated, every source; the wrap, the sharpness
\* and the static defaults stay at their initial values.
Next ==
    Step({"none"}, {0}, ImageDatas, CompressedDatas, FilterInputs,
         {DefaultWrap}, {0}, {<<0, 0, 1, 1>>})

Init == InitIn(ContextsOf({"npot", "mipmap", "compression", "maxlevel"}))

Spec == Init /\ [][Next]_vars

\* The visible state (filter, wrap, sharpness, rectangles) and the static
\* defaults: every argument, on the capability sets that decide the sharpness
\* and the padding.
NextVisible ==
    Step({"none", "linear"}, DefaultSharpnessInputs,
         { [w |-> MaxDim, h |-> 2] },
         { [type |-> "DXT5", w |-> 2, h |-> 2, numMipmaps |-> 1] },
         { LinearFilter("none"), NearestFilter("none") },
         WrapInputs, SharpnessInputs, RectInputs)

InitVisible == InitIn(ContextsOf({"npot", "sharpness", "compression"}))

SpecVisible == InitVisible /\ [][NextVisible]_vars

\* int Mesh::getAttachedAttributeIndex(const std::string &name) const: the
\* entry that takes precedence, the most recently attached one; 0 for none
\* (the entries are numbered from 1 here).
getAttachedAttributeIndex(m, name) ==
    LET es == { e \in 1 .. Len(m.attachedAttributes) : m.attachedAttributes[e].name = name }
    IN  IF es = {} THEN 0 ELSE CHOOSE e \in es : \A g \in es : g <= e

\* void Mesh::setAttributeEnabled(const std::string &name, bool enable)
setAttributeEnabled(m, name, enable) ==
    LET e == getAttachedAttributeIndex(m, name) IN
    IF e = 0 THEN Throw(m)
    ELSE [m EXCEPT !.attachedAttributes[e].enabled = enable]

\* void Mesh::attachAttribute(name, buffer, attachname, step)
attachAttribute(m, name, buffer, attachname, step) ==
    LET a == getDataMemberIndex(buffer, name) IN
    IF a = -1 THEN Throw(m)
    ELSE [m EXCEPT !.attachedAttributes =
            Append(@, [name |-> attachname, buffer |-> buffer, indexInBuffer |-> a,
                       step |-> step, enabled |-> TRUE])]

\* detachAttribute that removes the oldest entry of that name.
detachAttribute_RemovesOldest(m, name) ==
    LET es == { e \in 1 .. Len(m.attachedAttributes) : m.attachedAttributes[e].name = name }
        e == IF es = {} THEN 0 ELSE CHOOSE f \in es : \A g \in es : f <= g
    IN  IF e = 0 THEN [m EXCEPT !.ret = <<FALSE>>]
        ELSE [m EXCEPT !.attachedAttributes =
                          SubSeq(@, 1, e - 1) \o SubSeq(@, e + 1, Len(@)),
                       !.ret = <<TRUE>>]

\* bool Mesh::detachAttribute(const std::string &name)
detachAttribute(m, name) ==
    LET e == getAttachedAttributeIndex(m, name) IN
    IF e = 0 THEN [m EXCEPT !.ret = <<FALSE>>]
    ELSE [m EXCEPT !.attachedAttributes =
                      SubSeq(@, 1, e - 1) \o SubSeq(@, e + 1, Len(@)),
                   !.ret = <<TRUE>>]

\* void Mesh::setVertexMap(const std::vector<uint32> &map)
setVertexMap(m, map) ==
    [m EXCEPT !.indexBuffer = encodeIndices(map, "uint32"),
              !.indexDataType = "uint32",
              !.useIndexBuffer = (Len(map) > 0)]

\* void Mesh::setVertexMap(IndexDataType datatype, const void *data, size_t datasize)
setVertexMapData(m, datatype, d) ==
    [m EXCEPT !.indexBuffer = d,
              !.indexDataType = datatype,
              !.useIndexBuffer = (Len(d) >= getIndexDataSize(datatype))]

\* The no-argument setVertexMap that leaves the index buffer in use.
setVertexMapNone_KeepsMap(m) == m

\* void Mesh::setVertexMap()
setVertexMapNone(m) == [m EXCEPT !.useIndexBuffer = FALSE]

\* void Mesh::setIndexBuffer(Buffer *buffer)
setIndexBuffer(m, buffer) ==
    [m EXCEPT !.indexBuffer = buffer.data,
              !.indexDataType = buffer.type,
              !.useIndexBuffer = TRUE]

\* bool Mesh::getVertexMap(std::vector<uint32> &map) const: the map as 32-bit
\* indices; the identity when the index buffer is disabled.
getVertexMap(m) ==
    [m EXCEPT !.ret =
        IF m.useIndexBuffer THEN decodeIndices(m.indexBuffer, m.indexDataType)
        ELSE [k \in 1 .. vertexCount |-> k - 1]]

\* The Mesh variables take the values of the record r a method returned.
ApplyMesh(r) ==
    /\ attachedAttributes' = r.attachedAttributes
    /\ vertexBuffer' = r.vertexBuffer
    /\ indexBuffer' = r.indexBuffer
    /\ useIndexBuffer' = r.useIndexBuffer
    /\ indexDataType' = r.indexDataType
    /\ UNCHANGED <<vertexFormat, vertexCount, vertexStride>>

\* What a Mesh call leaves alone: the Image, its statics and the GL context.
image == <<glee, statics, phase, source, object, context, loaded, observed>>

MeshCalled(op, r, arg) ==
    last' = [op |-> op, ok |-> ~r.threw, arg |-> arg, ret |-> r.ret, uploads |-> 0]

SetVertex(vertindex, d) ==
    /\ vertexCount > 0
    /\ LET r == setVertex(MeshSt, vertindex, d) IN
          ApplyMesh(r) /\ MeshCalled("setVertex", r, <<vertindex, d>>)
    /\ UNCHANGED <<image, attachedBefore>>

GetVertex(vertindex, datasize) ==
    /\ vertexCount > 0
    /\ LET r == getVertex(MeshSt, vertindex, datasize) IN
          ApplyMesh(r) /\ MeshCalled("getVertex", r, <<vertindex, datasize>>)
    /\ UNCHANGED <<image, attachedBefore>>

SetVertexAttribute(vertindex, attribindex, d) ==
    /\ vertexCount > 0
    /\ LET r == setVertexAttribute(MeshSt, vertindex, attribindex, d) IN
          ApplyMesh(r) /\ MeshCalled("setVertexAttribute", r, <<vertindex, attribindex, d>>)
    /\ UNCHANGED <<image, attachedBefore>>

GetVertexAttribute(vertindex, attribindex, datasize) ==
    /\ vertexCount > 0
    /\ LET r == getVertexAttribute(MeshSt, vertindex, attribindex, datasize) IN
          ApplyMesh(r)
          /\ MeshCalled("getVertexAttribute", r, <<vertindex, attribindex, datasize>>)
    /\ UNCHANGED <<image, attachedBefore>>

SetAttributeEnabled(name, enable) ==
    /\ vertexCount > 0
    /\ LET r == setAttributeEnabled(MeshSt, name, enable) IN
          ApplyMesh(r) /\ MeshCalled("setAttributeEnabled", r, <<name, enable>>)
    /\ UNCHANGED <<image, attachedBefore>>

AttachAttribute(name, buffer, attachname, step) ==
    /\ vertexCount > 0
    /\ Len(attachedAttributes) < Len(vertexFormat) + MaxAttached
    /\ LET r == attachAttribute(MeshSt, name, buffer, attachname, step) IN
          ApplyMesh(r) /\ MeshCalled("attachAttribute", r, <<name, buffer, attachname, step>>)
    /\ attachedBefore' = <<attachedAttributes>>
    /\ UNCHANGED image

DetachAttribute(name) ==
    /\ vertexCount > 0
    /\ LET r == detachAttribute(MeshSt, name) IN
          ApplyMesh(r) /\ MeshCalled("detachAttribute", r, <<name>>)
    /\ attachedBefore' =
          IF last.op = "attachAttribute" /\ last.ok /\ last.arg[3] = name
          THEN attachedBefore ELSE <<>>
    /\ UNCHANGED image

SetVertexMap(map) ==
    /\ vertexCount > 0
    /\ LET r == setVertexMap(MeshSt, map) IN
          ApplyMesh(r) /\ MeshCalled("setVertexMap", r, <<map>>)
    /\ UNCHANGED <<image, attachedBefore>>

SetVertexMapData(datatype, d) ==
    /\ vertexCount > 0
    /\ LET r == setVertexMapData(MeshSt, datatype, d) IN
          ApplyMesh(r) /\ MeshCalled("setVertexMapData", r, <<datatype, d>>)
    /\ UNCHANGED <<image, attachedBefore>>

SetVertexMapNone ==
    /\ vertexCount > 0
    /\ LET r == setVertexMapNone(MeshSt) IN
          ApplyMesh(r) /\ MeshCalled("setVertexMapNone", r, <<>>)
    /\ UNCHANGED <<image, attachedBefore>>

SetIndexBuffer(buffer) ==
    /\ vertexCount > 0
    /\ LET r == setIndexBuffer(MeshSt, buffer) IN
          ApplyMesh(r) /\ MeshCalled("setIndexBuffer", r, <<buffer>>)
    /\ UNCHANGED <<image, attachedBefore>>

GetVertexMap ==
    /\ vertexCount > 0
    /\ LET r == getVertexMap(MeshSt) IN
          ApplyMesh(r) /\ MeshCalled("getVertexMap", r, <<>>)
    /\ UNCHANGED <<image, attachedBefore>>

\* A Mesh of 1 .. MaxVertices vertices right after its construction.
InitMesh ==
    /\ ImageInitIn({{}})
    /\ \E n \in 1 .. MaxVertices : NewMesh(PositionColorFormat, n)

\* The data of the calls: whole vertices, one short and one that is too long;
\* attribute values up to one byte more than the largest attribute.
VertexDatas == { <<0, 0, 0>>, <<1, 0, 1>>, <<0, 1, 1>>, <<1>>, <<1, 1, 1, 1>> }
AttributeDatas == { <<1>>, <<0, 1>>, <<1, 1, 1>> }

\* The vertex data: whole vertices and single attributes, written and read
\* back, with the color attribute enabled and disabled.
NextMesh ==
    \/ \E i \in 0 .. MaxVertices, d \in VertexDatas : SetVertex(i, d)
    \/ \E i \in 0 .. MaxVertices : GetVertex(i, getArrayStride(PositionColorFormat))
    \/ GetVertex(0, getArrayStride(PositionColorFormat) + 1)
    \/ \E i \in 0 .. MaxVertices, a \in 0 .. Len(PositionColorFormat), d \in AttributeDatas :
          SetVertexAttribute(i, a, d)
    \/ \E i \in 0 .. MaxVertices, a \in 0 .. Len(PositionColorFormat) :
          GetVertexAttribute(i, a, IF a = 0 THEN 2 ELSE 1)
    \/ \E e \in BOOLEAN : SetAttributeEnabled("VertexColor", e)

SpecMesh == InitMesh /\ [][NextMesh]_vars

\* attachAttribute calls: <<name, buffer, attachname, step>>; the last names
\* an attribute the buffer does not declare.
AttachInputs ==
    { <<"InstanceOffset", "instances", "InstanceOffset", "perinstance">>,
      <<"VertexColor", "colors", "VertexColor", "pervertex">>,
      <<"VertexColor", "instances", "InstanceOffset", "perinstance">>,
      <<"InstanceOffset", "colors", "InstanceOffset", "pervertex">> }

\* The vertex map, and the attributes attached from other buffers.
NextMeshFormat ==
    \/ \E a \in AttachInputs : AttachAttribute(a[1], a[2], a[3], a[4])
    \/ \E name \in {"VertexColor", "InstanceOffset"} : DetachAttribute(name)
    \/ \E e \in BOOLEAN : SetAttributeEnabled("InstanceOffset", e)
    \/ \E map \in { <<>>, <<1, 0>> } : SetVertexMap(map)
    \/ SetVertexMapData("uint16", <<1, 0>>)
    \/ SetVertexMapNone
    \/ \E buffer \in OtherIndexBuffers : SetIndexBuffer(buffer)
    \/ GetVertexMap

SpecMeshFormat == InitMesh /\ [][NextMeshFormat]_vars

(* ------------------------------- claims -------------------------------- *)

IsPow2(n) == n = next_p2(n)
NPOTSource == ~IsPow2(width) \/ ~IsPow2(height)
MipmapRequested(f) == f.mipmap \in {"nearest", "linear"}

\* C1: unload() and then a successful load() of a Loaded Image leave
\* getFilter(), getWrap(), getMipmapSharpness(), width and height as they were
\* observed right before the unload().
C1_ReloadKeepsVisibleState ==
    (last.op = "load" /\ last.ok /\ observed # <<>>) => Visible = observed[1]

\* C1 witness: a reload has succeeded on an Image whose filter, wrap and
\* sharpness had all been changed from their defaults.
C1_Witness ==
    /\ last.op = "load" /\ last.ok /\ observed # <<>>
    /\ filter.min = "nearest"
    /\ wrap # DefaultWrap
    /\ mipmapSharpness > 0

\* C2 (as claimed): a load() that fails on an Unloaded Image leaves the texture
\* handle 0, no texture name in use, and the vertices, filter and
\* mipmapsCreated unchanged.
C2_FailedLoadKeepsUnloaded ==
    [][(texture = 0 /\ last'.op = "load" /\ ~last'.ok)
        => /\ texture' = 0
           /\ live' = live
           /\ vertices' = vertices
           /\ filter' = filter
           /\ mipmapsCreated' = mipmapsCreated]_vars

\* C3: the texture handle is 0 from construction until the first load, is the
\* name of a live texture after every load() that returns, is 0 after every
\* unload(), and unload() of an Unloaded Image changes nothing and deletes no name.
C3_TextureStateMachine ==
    [][/\ last'.op = "new" => texture' = 0
       /\ last'.op # "load" => texture' \in {texture, 0}
       /\ (last'.op = "load" /\ last'.ok) => (texture' # 0 /\ texture' \in live')
       /\ last'.op = "unload" =>
            /\ texture' = 0
            /\ texture = 0 => UNCHANGED <<statics, source, object, context>>]_vars

\* C3 witness: an unload() has brought a Loaded Image back to handle 0.
C3_Witness == last.op = "unload" /\ observed # <<>> /\ texture = 0 /\ live = {}

\* The texture coordinates of the corners are 0 and (sc, tc).
CornersAre(sc, tc) ==
    \A i \in 0 .. 3 :
        /\ FracEq(vertices[i].s, IF i \in {2, 3} THEN sc ELSE Zero)
        /\ FracEq(vertices[i].t, IF i \in {1, 2} THEN tc ELSE Zero)

\* C4: after a successful load() of a raw-pixel W x H Image the largest
\* texture coordinates are (W/P, H/Q) on a system without NPOT support, P and Q
\* the next powers of two, and (1, 1) on a system with NPOT support.
C4_PaddedCorners ==
    (loaded /\ ~isCompressed) =>
        IF hasNpot THEN CornersAre(One, One)
        ELSE CornersAre(Frac(width, next_p2(width)), Frac(height, next_p2(height)))

\* C4 witness: a raw image with NPOT width and height is Loaded on a POT-only system.
C4_Witness ==
    /\ loaded /\ ~isCompressed /\ ~hasNpot
    /\ ~IsPow2(width) /\ ~IsPow2(height)

\* C5 (as claimed): on a POT-only system the texture coordinates that
\* getRectangleVertices(x, y, w, h) returns for a rectangle inside a Loaded raw
\* image are fractions of the padded size P x Q.
C5_RectangleInPaddedTexture ==
    (last.op = "getRectangleVertices" /\ loaded /\ ~isCompressed /\ ~hasNpot
        /\ last.arg[1] + last.arg[3] <= width /\ last.arg[2] + last.arg[4] <= height)
    => LET x == last.arg[1]  y == last.arg[2]  w == last.arg[3]  h == last.arg[4]
           P == next_p2(width)  Q == next_p2(height)
       IN  \A i \in 0 .. 3 :
             /\ FracEq(last.ret[i].s, Frac(IF i \in {2, 3} THEN x + w ELSE x, P))
             /\ FracEq(last.ret[i].t, Frac(IF i \in {1, 2} THEN y + h ELSE y, Q))

\* C6: on a raw image with an NPOT width or height, setFilter with a mipmap
\* mode, and load with a mipmap mode active, fail under every capability set,
\* and mipmapsCreated is false afterwards.
C6_NoMipmapsForNPOT ==
    (phase = "alive" /\ ~isCompressed /\ NPOTSource) =>
        /\ ~mipmapsCreated
        /\ (last.op \in {"setFilter", "load"} /\ MipmapRequested(filter)) => ~last.ok

\* C6 witness: setFilter with a mipmap mode has failed on a raw NPOT image in a
\* context that has both NPOT and mipmap support.
C6_Witness ==
    /\ last.op = "setFilter" /\ ~last.ok /\ MipmapRequested(filter)
    /\ ~isCompressed /\ NPOTSource /\ hasNpot /\ hasMipmapSupport /\ texture # 0

\* C7 (as claimed): a setFilter(f) that fails leaves getFilter() as it was.
C7_FailedSetFilterKeepsFilter ==
    [][(last'.op = "setFilter" /\ ~last'.ok) => filter' = filter]_vars

\* C8 (as claimed): setMipmapSharpness(s) never fails and stores s clamped into
\* [-maxBias + epsilon, maxBias - epsilon] with LOD-bias support, 0 without.
C8_SharpnessClamped ==
    last.op = "setMipmapSharpness" =>
        /\ last.ok
        /\ mipmapSharpness =
             IF hasMipmapSharpnessSupport
             THEN Min(Max(last.arg[1], -DriverMaxBias + Epsilon), DriverMaxBias - Epsilon)
             ELSE 0

\* The smallest level a compressed source supplies is larger than 1 x 1.
ChainIncomplete ==
    getWidth(cdata, cdata.numMipmaps - 1) > 1 \/ getHeight(cdata, cdata.numMipmaps - 1) > 1

\* C9 (as claimed): requesting a mipmap mode on a Loaded compressed NPOT image
\* fails when the system has no mipmap-hardware support.
C9_CompressedNeedsMipmapSupport ==
    [][(last'.op = "setFilter" /\ MipmapRequested(filter') /\ ~mipmapsCreated
          /\ loaded /\ isCompressed /\ NPOTSource /\ ~hasMipmapSupport)
       => ~last'.ok]_vars

\* C9 (amended): requesting a mipmap mode fails on a raw source when the
\* system has no mipmap-hardware support; a compressed source is exempt from
\* that check, and setFilter fails on it only when the format is supported,
\* the driver cannot set the maximum level and the chain is incomplete.
C9_MipmapSupportCheck ==
    (last.op \in {"setFilter", "load"} /\ MipmapRequested(filter)) =>
        /\ (~isCompressed /\ ~hasMipmapSupport) => ~last.ok
        /\ (isCompressed /\ last.op = "setFilter" /\ ~last.ok) =>
              /\ hasCompressedTextureSupportFor(cdata.type)
              /\ ~hasMaxLevel
              /\ ChainIncomplete

\* C9 witness: on a Loaded compressed NPOT image, without mipmap-hardware
\* support, setFilter with a mipmap mode has succeeded and created the mipmaps.
C9_Witness ==
    /\ last.op = "setFilter" /\ last.ok /\ MipmapRequested(filter)
    /\ loaded /\ isCompressed /\ NPOTSource /\ ~hasMipmapSupport /\ mipmapsCreated

\* C10: load() of a compressed source fails, before any texture name is
\* generated, when the format is not supported; fails when the format is
\* supported, the system has no NPOT support and a dimension is NPOT; and
\* otherwise succeeds unless the driver reports an error or the mipmaps fail.
C10_CompressedLoadGate ==
    [][(isCompressed /\ last'.op = "load") =>
        LET supported == hasCompressedTextureSupportFor(cdata.type)
            mipmapsFail == MipmapRequested(filter) /\ ~hasMaxLevel /\ ChainIncomplete
        IN  /\ ~supported => (~last'.ok /\ live' = live /\ texture' = texture)
            /\ (supported /\ ~hasNpot /\ NPOTSource) => ~last'.ok
            /\ (supported /\ (hasNpot \/ ~NPOTSource) /\ ~mipmapsFail
                  /\ Load(FreshName, FALSE)) => last'.ok]_vars

\* C10 witness: a compressed power-of-two image has loaded on a POT-only system.
C10_Witness ==
    /\ last.op = "load" /\ last.ok /\ isCompressed
    /\ ~hasNpot /\ width > 1 /\ texture # 0

\* C11: after every successful setFilter(f) the stored filter has the min, mag
\* and mipmap modes of f and the anisotropy the driver granted for f; after
\* every successful load() it has the modes it had and the anisotropy the
\* driver granted for it.
C11_GrantedAnisotropy ==
    [][/\ (last'.op = "setFilter" /\ last'.ok) =>
            filter' = [last'.arg[1] EXCEPT !.anisotropy = setTextureFilter(last'.arg[1])]
       /\ (last'.op = "load" /\ last'.ok) =>
            filter' = [filter EXCEPT !.anisotropy = setTextureFilter(filter)]]_vars

\* C11 witness: a successful setFilter asked for more anisotropy than the
\* driver grants, and the stored value is the granted one.
C11_Witness ==
    /\ last.op = "setFilter" /\ last.ok
    /\ last.arg[1].anisotropy > MaxAnisotropy
    /\ filter.anisotropy = MaxAnisotropy
    /\ filter.min = last.arg[1].min

\* C16: checkMipmapsCreated returns the state it was given, with no upload,
\* when mipmapsCreated is already true or the filter's mipmap mode is neither
\* nearest nor linear; so a setFilter in that situation succeeds without an
\* upload and without touching mipmapsCreated or any texture's levels, a
\* setFilter that uploads takes mipmapsCreated from false to true, and only
\* load() takes mipmapsCreated back to false.
C16_MipmapsAtMostOncePerLoad ==
    [][/\ (mipmapsCreated \/ ~MipmapRequested(filter)) => checkMipmapsCreated(St) = St
       /\ (last'.op = "setFilter" /\ (mipmapsCreated \/ ~MipmapRequested(filter'))) =>
            /\ last'.ok
            /\ last'.uploads = 0
            /\ mipmapsCreated' = mipmapsCreated
            /\ levels' = levels
       /\ (last'.op = "setFilter" /\ last'.uploads > 0) =>
            (~mipmapsCreated /\ mipmapsCreated')
       /\ (mipmapsCreated /\ ~mipmapsCreated') => last'.op = "load"]_vars

\* C16 witness: on a Loaded raw image whose mipmaps exist, a further setFilter
\* with a mipmap mode has returned without any upload.
C16_Witness ==
    /\ last.op = "setFilter" /\ last.ok /\ last.uploads = 0
    /\ MipmapRequested(filter) /\ mipmapsCreated
    /\ loaded /\ ~isCompressed /\ FullChain(width, height) \subseteq levels[texture]

\* C17 (as claimed): setFilter with a mipmap mode on a compressed source whose
\* mipmaps are not yet created uploads the levels 1 .. numMipmaps-1 and sets
\* mipmapsCreated when the driver can set the maximum level; when it cannot
\* and the smallest supplied level is larger than 1 x 1, it fails, uploads no
\* level and leaves mipmapsCreated false.
C17_CompressedMipmapLevels ==
    [][(last'.op = "setFilter" /\ isCompressed /\ MipmapRequested(filter')
          /\ ~mipmapsCreated) =>
        /\ hasMaxLevel =>
             /\ last'.ok /\ mipmapsCreated'
             /\ last'.uploads = cdata.numMipmaps - 1
             /\ (1 .. cdata.numMipmaps - 1) \subseteq levels'[bound']
        /\ (~hasMaxLevel /\ ChainIncomplete) =>
             /\ ~last'.ok /\ ~mipmapsCreated'
             /\ last'.uploads = 0 /\ levels' = levels]_vars

\* C17 (amended): the above holds for a compressed source whose format the
\* system supports; on an unsupported format setFilter with a mipmap mode
\* returns without error, uploads nothing and leaves mipmapsCreated false.
\* A successful load() with a mipmap mode leaves the texture with exactly the
\* levels 0 .. numMipmaps-1 and mipmapsCreated true, and a load() without the
\* maximum-level capability of a supported source with an incomplete chain fails.
C17_SupportedCompressedMipmapLevels ==
    [][/\ (last'.op = "setFilter" /\ isCompressed /\ MipmapRequested(filter')
             /\ ~mipmapsCreated) =>
           IF hasCompressedTextureSupportFor(cdata.type)
           THEN /\ hasMaxLevel =>
                     /\ last'.ok /\ mipmapsCreated'
                     /\ last'.uploads = cdata.numMipmaps - 1
                     /\ (1 .. cdata.numMipmaps - 1) \subseteq levels'[bound']
                /\ (~hasMaxLevel /\ ChainIncomplete) =>
                     /\ ~last'.ok /\ ~mipmapsCreated'
                     /\ last'.uploads = 0 /\ levels' = levels
           ELSE /\ last'.ok /\ ~mipmapsCreated'
                /\ last'.uploads = 0 /\ levels' = levels
       /\ (last'.op = "load" /\ isCompressed /\ MipmapRequested(filter)) =>
           /\ last'.ok =>
                (mipmapsCreated' /\ levels'[texture'] = 0 .. cdata.numMipmaps - 1)
           /\ (hasCompressedTextureSupportFor(cdata.type) /\ ~hasMaxLevel
                 /\ ChainIncomplete) =>
                (~last'.ok /\ ~mipmapsCreated')]_vars

\* C17 witness: on a Loaded compressed image with two supplied levels, setFilter
\* with a mipmap mode has uploaded level 1 next to level 0.
C17_Witness ==
    /\ last.op = "setFilter" /\ last.ok /\ last.uploads = 1
    /\ loaded /\ isCompressed /\ cdata.numMipmaps = 2 /\ hasMaxLevel
    /\ mipmapsCreated /\ levels[texture] = {0, 1}

\* C18 (as claimed): every texture name generated and not yet deleted is the
\* Image's current texture handle, in every reachable state, also after a
\* load() of an already Loaded Image and after destruction.
C18_NoLeakedTexture == live \subseteq {texture}

\* C19 (as claimed): in every reachable state mipmapsCreated implies that the
\* Image is Loaded (texture is not 0) and that the current texture object
\* holds mipmap levels beyond level 0 whenever the source has any.
C19_MipmapsBelongToTexture ==
    mipmapsCreated =>
        /\ texture # 0
        /\ texture \in live
        /\ IF isCompressed
           THEN (0 .. cdata.numMipmaps - 1) \subseteq levels[texture]
           ELSE FullChain(width, height) \subseteq levels[texture]

\* C20 (as claimed): with LOD-bias support setMipmapSharpness(0) stores exactly
\* 0, also before any Image was loaded, and the stored sharpness never has a
\* larger magnitude than the requested one.
C20_SharpnessZeroAndNoLarger ==
    (last.op = "setMipmapSharpness" /\ hasMipmapSharpnessSupport) =>
        /\ last.arg[1] = 0 => mipmapSharpness = 0
        /\ Max(mipmapSharpness, -mipmapSharpness) <= Max(last.arg[1], -last.arg[1])

\* C12: setVertex(i, d) and getVertex(i, n) are rejected exactly when
\* i >= vertexCount or the data size exceeds the stride, and a rejected call
\* leaves the vertex bytes alone; an accepted setVertex leaves the bytes of
\* every other vertex unchanged; and getVertex(i) right after setVertex(i, d)
\* with d one stride long returns exactly d.
C12_SetGetVertex ==
    [][/\ last'.op = "setVertex" =>
            LET i == last'.arg[1]  d == last'.arg[2] IN
            IF i >= vertexCount \/ Len(d) > vertexStride
            THEN ~last'.ok /\ vertexBuffer' = vertexBuffer
            ELSE /\ last'.ok
                 /\ \A k \in DOMAIN vertexBuffer :
                       (k \div vertexStride) # i => vertexBuffer'[k] = vertexBuffer[k]
       /\ last'.op = "getVertex" =>
            /\ last'.ok <=> (last'.arg[1] < vertexCount /\ last'.arg[2] <= vertexStride)
            /\ vertexBuffer' = vertexBuffer
       /\ (last.op = "setVertex" /\ last.ok /\ Len(last.arg[2]) = vertexStride
             /\ last'.op = "getVertex" /\ last'.arg = <<last.arg[1], vertexStride>>) =>
            (last'.ok /\ last'.ret = last.arg[2])]_vars

\* C12 witness: getVertex of the last vertex has returned the non-zero data a
\* setVertex had written there, while the first vertex holds other bytes.
C12_Witness ==
    /\ last.op = "getVertex" /\ last.ok
    /\ vertexCount = 2 /\ last.arg[1] = 1
    /\ last.ret = <<1, 0, 1>>
    /\ Read(vertexBuffer, 0, vertexStride) = <<0, 1, 1>>

\* C13: an accepted setVertexAttribute(i, a, d) changes no byte outside
\* attribute a of vertex i, and getVertexAttribute(i, a) right after it, for
\* the size of d, returns exactly d.
C13_SetGetVertexAttribute ==
    [][/\ (last'.op = "setVertexAttribute" /\ last'.ok) =>
            LET i == last'.arg[1]  a == last'.arg[2]
                lo == i * vertexStride + getMemberOffset(vertexFormat, a)
                hi == lo + vertexFormat[a + 1].size - 1
            IN  /\ i < vertexCount /\ isOwnAttributeEnabled(MeshSt, a)
                /\ \A k \in DOMAIN vertexBuffer :
                      k \notin lo .. hi => vertexBuffer'[k] = vertexBuffer[k]
       /\ (last.op = "setVertexAttribute" /\ last.ok
             /\ last'.op = "getVertexAttribute"
             /\ last'.arg = <<last.arg[1], last.arg[2], Len(last.arg[3])>>) =>
            (last'.ok /\ last'.ret = last.arg[3])]_vars

\* C13 witness: getVertexAttribute has returned the position written to the
\* last vertex, whose color and whose neighbour hold non-zero bytes too.
C13_Witness ==
    /\ last.op = "getVertexAttribute" /\ last.ok
    /\ vertexCount = 2 /\ last.arg[1] = 1 /\ last.arg[2] = 0
    /\ last.ret = <<0, 1>>
    /\ vertexBuffer[5] = 1
    /\ vertexBuffer[0] = 1

\* C14: the no-argument setVertexMap() disables the index buffer, whatever
\* vertex map or index buffer was set before, and getVertexMap() right after
\* it yields 0 .. vertexCount-1.
C14_NoVertexMapIsIdentity ==
    [][/\ last'.op = "setVertexMapNone" => (last'.ok /\ ~useIndexBuffer')
       /\ (last.op = "setVertexMapNone" /\ last'.op = "getVertexMap") =>
            last'.ret = [k \in 1 .. vertexCount |-> k - 1]]_vars

\* C14 witness: getVertexMap has returned the identity of a two-vertex Mesh
\* whose index buffer still holds the map <<1, 0>> that was set and then disabled.
C14_Witness ==
    /\ last.op = "getVertexMap" /\ last.ret = <<0, 1>>
    /\ vertexCount = 2 /\ ~useIndexBuffer
    /\ decodeIndices(indexBuffer, indexDataType) = <<1, 0>>

\* C15: detachAttribute of the name a successful attachAttribute has just
\* attached returns true and leaves the attached attributes (name, buffer,
\* index, step and enabled flag of each, in order) exactly as they were before
\* the attach; attach and detach leave the own vertex format, the own vertex
\* buffer and its size alone, and an attach leaves every entry of the own
\* buffer in place.
C15_AttachDetachRestores ==
    [][/\ (last'.op = "detachAttribute" /\ attachedBefore' # <<>>) =>
            (last'.ret = <<TRUE>> /\ attachedAttributes' = attachedBefore'[1])
       /\ last'.op \in {"attachAttribute", "detachAttribute"} =>
            UNCHANGED <<vertexFormat, vertexBuffer, vertexCount, vertexStride>>
       /\ last'.op = "attachAttribute" =>
            \A e \in 1 .. Len(attachedAttributes) :
                attachedAttributes[e].buffer = "own" =>
                    (e <= Len(attachedAttributes') /\ attachedAttributes'[e] = attachedAttributes[e])]_vars

\* C15 witness: an attribute attached under a name that another attachment
\* already had has been detached again, and the older attachment is in place.
C15_Witness ==
    /\ last.op = "detachAttribute" /\ attachedBefore # <<>>
    /\ attachedAttributes = attachedBefore[1]
    /\ getAttachedAttributeIndex(MeshSt, last.arg[1]) # 0
    /\ Len(attachedAttributes) > Len(vertexFormat)

=============================================================================
